---- MODULE Spec2Model ----
(***************************************************************************)
(* Model of slideslive-slides-dl.py: one run of the script is a sequence   *)
(* of steps (resolve the video id, resolve the slide manifest with the     *)
(* JSON -> XML fallback, download every slide image, write the ffmpeg      *)
(* concat playlist).  The per-video folder survives between runs, so the   *)
(* script can be started again on the same video.                          *)
(* The guard of l.152 is read as the usual test of __name__ against the    *)
(* string '__main__', so that the body of l.153-178 runs.                  *)
(***************************************************************************)
EXTENDS Integers, Sequences, FiniteSets, TLC

VARIABLES
    url,          \* args.url, as a sequence of lexical tokens
    sizeArg,      \* args.size
    remoteJson,   \* the document the metadata host serves at <id>/v6/slides.json
    remoteXml,    \* the document the metadata host serves at <id>/<id>.xml
    folder,       \* what is at ./<id>-<name>: "absent", "dir" or "file"
    fs,           \* files inside the per-video folder: name -> content
    run,          \* number of the current run of the script
    pc,           \* position of the current run
    exitStatus,   \* -1 while running, else the exit status of the process
    video,        \* (video_id, video_name) of the current run
    slides_info,  \* what download_slides_info returned to __main__
    idx,          \* next slide of the download loop (1-based)
    net,          \* network requests and sleeps of the current run, in order
    fetched,      \* file name -> number of completed downloads, over all runs
    hits          \* manifests of the current run that were served from disk

vars == << url, sizeArg, remoteJson, remoteXml, folder, fs, run, pc, exitStatus,
           video, slides_info, idx, net, fetched, hits >>

----------------------------------------------------------------------------
(* Bounds of the exploration.                                              *)

MaxRuns == 2
MaxSlides == 2

----------------------------------------------------------------------------
(* Python values.  Every value carries its type; i holds an int (or the    *)
(* thousandths of a float), s holds a str.                                 *)

PInt(n) == [ty |-> "int", i |-> n, s |-> ""]
PStr(t) == [ty |-> "str", i |-> 0, s |-> t]
PFloat(thousandths) == [ty |-> "float", i |-> thousandths, s |-> ""]
PNone == [ty |-> "none", i |-> 0, s |-> ""]

IsNumber(v) == v.ty \in {"int", "float"}

\* value as thousandths
Thousandths(v) == IF v.ty = "int" THEN 1000 * v.i ELSE v.i

\* int(x) of a float given in thousandths: truncation towards zero
TruncThousandths(t) == IF t >= 0 THEN t \div 1000 ELSE -((-t) \div 1000)

\* '{}'.format(v)
Format(v) ==
    CASE v.ty = "int" -> ToString(v.i)
      [] v.ty = "str" -> v.s
      [] v.ty = "none" -> "None"
      [] OTHER -> ToString(v.i)

RECURSIVE Concat(_)
Concat(toks) == IF toks = <<>> THEN "" ELSE Head(toks) \o Concat(Tail(toks))

----------------------------------------------------------------------------
\* get_video_id: re.findall over the url, given as tokens.  The pattern is
\* the literal scheme and host, a tld of Tlds, "/", a run of digits (the id,
\* possibly empty), "/", a run of anything but "/" and "?" (the name), then
\* any rest; findall searches unanchored and ids[0] is the leftmost match.

SchemeHost == "https://slideslive."
Tlds == {"com", "de"}
DigitToks == {"38", "7"}

\* length of the longest run of tokens of set S that starts at position p
RECURSIVE RunLen(_, _, _)
RunLen(toks, p, S) ==
    IF p <= Len(toks) /\ toks[p] \in S THEN 1 + RunLen(toks, p + 1, S) ELSE 0

\* does the pattern match starting at token p
MatchesAt(toks, p) ==
    /\ p + 2 <= Len(toks)
    /\ toks[p] = SchemeHost
    /\ toks[p + 1] \in Tlds
    /\ toks[p + 2] = "/"
    /\ LET d == RunLen(toks, p + 3, DigitToks)
       IN  /\ p + 3 + d <= Len(toks)
           /\ toks[p + 3 + d] = "/"

get_video_id(toks) ==
    LET starts == {p \in 1..Len(toks) : MatchesAt(toks, p)}
    IN  IF starts = {}
        THEN [matched |-> FALSE, id |-> "", name |-> ""]
        ELSE LET p == CHOOSE q \in starts : \A r \in starts : q <= r
                 d == RunLen(toks, p + 3, DigitToks)
                 nameStart == p + 4 + d
                 n == LET rest == {k \in 0..(Len(toks) - nameStart + 1) :
                                     \A j \in 0..(k - 1) : toks[nameStart + j] \notin {"/", "?"}}
                      IN  CHOOSE k \in rest : \A m \in rest : m <= k
             IN  [matched |-> TRUE,
                  id |-> Concat(SubSeq(toks, p + 3, p + 2 + d)),
                  name |-> Concat(SubSeq(toks, nameStart, nameStart + n - 1))]

Urls ==
    { << SchemeHost, "com", "/", "38", "/", "talk" >>,
      << SchemeHost, "de", "/", "38", "/", "talk", "?", "x" >>,
      << "http://slideslive.", "com", "/", "38", "/", "talk" >>,
      << SchemeHost, "org", "/", "38", "/", "talk" >>,
      << SchemeHost, "com", "/", "38" >> }

----------------------------------------------------------------------------
(* Manifests.  A document is text that either fails to decode             *)
(* (syntax = "bad") or decodes to a value.  A JSON object is a record: a    *)
(* missing key is a field outside its DOMAIN.  An XML root is the sequence *)
(* of its child nodes, each a record of the sub-elements it has, with      *)
(* their text (a str, or None for an empty element).                       *)

PngExt == ".png"

JsonTimes == {PInt(0), PInt(1500), PInt(2000)}

JsonEntry(i, t) ==
    [image |-> [name |-> PStr("s" \o ToString(i)), extname |-> PStr(PngExt)],
     time |-> t]

JsonDoc(entries) == [syntax |-> "ok", value |-> [slides |-> entries]]

ValidJsonDocs ==
    { JsonDoc([i \in 1..n |-> JsonEntry(i, ts[i])]) :
        n \in 0..MaxSlides, ts \in [1..MaxSlides -> JsonTimes] }

JsonDocs ==
    ValidJsonDocs \cup
    { [syntax |-> "bad"],
      [syntax |-> "ok", value |-> [error |-> PStr("not found")]],
      JsonDoc(<< [time |-> PInt(0)] >>),
      JsonDoc(<< JsonEntry(1, PInt(0)), [image |-> [name |-> PStr("s2")], time |-> PInt(1500)] >>),
      JsonDoc(<< JsonEntry(1, PInt(0)), JsonEntry(2, PStr("1500")) >>),
      JsonDoc(<< [image |-> [name |-> PNone, extname |-> PStr(PngExt)], time |-> PInt(0)] >>) }

XmlNode(i, t) ==
    [orderId |-> PStr(ToString(i - 1)), timeSec |-> PStr(t), time |-> PStr(t),
     slideName |-> PStr("x" \o ToString(i))]

XmlDocs ==
    { [syntax |-> "ok", nodes |-> [i \in 1..n |-> XmlNode(i, ToString(2 * (i - 1)))]] :
        n \in 0..MaxSlides } \cup
    { [syntax |-> "bad"],
      [syntax |-> "ok", nodes |-> << [orderId |-> PStr("0"), timeSec |-> PStr("0"),
                                      slideName |-> PNone] >>] }

\* parse_json: json.load, then one dict per entry of parsed['slides']
RECURSIVE json_slides(_)
json_slides(entries) ==
    IF entries = <<>> THEN [err |-> "", slides |-> <<>>]
    ELSE LET e == Head(entries)
         IN  IF \/ "image" \notin DOMAIN e
                \/ "name" \notin DOMAIN e.image
                \/ "extname" \notin DOMAIN e.image
                \/ "time" \notin DOMAIN e
             THEN [err |-> "KeyError", slides |-> <<>>]
             ELSE LET rest == json_slides(Tail(entries))
                  IN  IF rest.err # "" THEN rest
                      ELSE [err |-> "",
                            slides |-> << [slideName |-> e.image.name,
                                           slideExt |-> e.image.extname,
                                           time |-> e.time] >> \o rest.slides]

\* the time is normalised to whole seconds while parsing
parse_json_seconds(doc) ==
    IF doc.syntax # "ok" THEN [err |-> "JSONDecodeError", slides |-> <<>>]
    ELSE IF "slides" \notin DOMAIN doc.value THEN [err |-> "KeyError", slides |-> <<>>]
    ELSE LET r == json_slides(doc.value.slides)
         IN  [err |-> r.err,
              slides |-> [k \in 1..Len(r.slides) |->
                            [r.slides[k] EXCEPT !.time =
                                IF @.ty = "int" THEN PInt(@.i \div 1000) ELSE @]]]

parse_json(doc) ==
    IF doc.syntax # "ok" THEN [err |-> "JSONDecodeError", slides |-> <<>>]
    ELSE IF "slides" \notin DOMAIN doc.value THEN [err |-> "KeyError", slides |-> <<>>]
    ELSE json_slides(doc.value.slides)

df_cols == << "orderId", "timeSec", "time", "slideName" >>

\* parse_xml: one row per child of the root, None for a missing sub-element
xml_row(node, cols) ==
    [c \in {cols[k] : k \in 1..Len(cols)} |->
        IF c \in DOMAIN node THEN node[c] ELSE PNone]

parse_xml(doc, cols) ==
    IF doc.syntax # "ok" THEN [err |-> "ParseError", slides |-> <<>>]
    ELSE [err |-> "",
          slides |-> [k \in 1..Len(doc.nodes) |-> xml_row(doc.nodes[k], cols)]]

----------------------------------------------------------------------------
(* Names and URLs.  File names are relative to the per-video folder, which *)
(* is also where ffmpeg_concat.txt lives.                                  *)

JsonFile == "slides.json"
ConcatFile == "ffmpeg_concat.txt"
\* the manifest is stored under the bare id
XmlFile_bare_id(video_id) == video_id

XmlFile(video_id) == video_id \o ".xml"

BaseMetadataUrl == "https://slides.slideslive.com"
BaseDataUrl == "https://d1qcbvwoy8vxsg.cloudfront.net"
BaseOldDataUrl == "https://d2ygwrecguqg66.cloudfront.net/data/presentations"

SizeArgs == {"big", "medium", "720"}

BigHeight == 1080
MediumHeight == 540

\* no alias is resolved
size_conversion_identity(token) == PStr(token)

\* size_conversion.get(args.size, args.size)
size_conversion(token) ==
    CASE token = "big" -> PInt(BigHeight)
      [] token = "medium" -> PInt(MediumHeight)
      [] OTHER -> PStr(token)

json_info_url(video_id) == BaseMetadataUrl \o "/" \o video_id \o "/v6/slides.json"
xml_info_url(video_id) == BaseMetadataUrl \o "/" \o video_id \o "/" \o video_id \o ".xml"

\* download_slides_json: img_url and file_path of one slide
json_img_url(video_id, slide, size) ==
    BaseDataUrl \o "/" \o video_id \o "/slides/" \o slide.slideName.s \o slide.slideExt.s
        \o "?h=" \o Format(size) \o "&f=webp&s=lambda&accelerate_s3=1"

json_file_path(slide, size) ==
    Format(slide.slideName) \o "-" \o Format(size) \o "-" \o Format(slide.time)
        \o Format(slide.slideExt)

\* download_slides_xml: img_url and file_path of one row
xml_img_url(video_id, row, size) ==
    BaseOldDataUrl \o "/" \o video_id \o "/slides/" \o Format(size) \o "/"
        \o Format(row.slideName) \o ".jpg"

xml_file_path(row, size) ==
    Format(row.time) \o "-" \o Format(row.slideName) \o "-" \o Format(size) \o ".jpg"

\* create_ffmpeg_concat_file: file_path of one row
concat_file_path(row, size) ==
    Format(row.time) \o "-" \o Format(row.slideName) \o "-" \o Format(size) \o ".jpg"

----------------------------------------------------------------------------
(* download_save_file.  The outcome of the request is the environment's:  *)
(* "ok" (2xx), "http_error" (raise_for_status raises) or "transport_error" *)
(* (requests.get raises).                                                  *)

Outcomes == {"ok", "http_error", "transport_error"}

GetEvent(u, path, outcome) == [op |-> "get", url |-> u, path |-> path, outcome |-> outcome]
SleepEvent == [op |-> "sleep", url |-> "", path |-> "", outcome |-> ""]

Count(cnt, path) == IF path \in DOMAIN cnt THEN cnt[path] ELSE 0

\* the target is opened for writing before the request is made
download_save_file_open_first(files, log, cnt, u, path, body, outcome) ==
    IF outcome # "ok"
    THEN [fs |-> (path :> [syntax |-> "bad", truncated |-> TRUE]) @@ files,
          net |-> Append(log, GetEvent(u, path, outcome)),
          fetched |-> cnt, raised |-> TRUE]
    ELSE [fs |-> (path :> body) @@ files,
          net |-> log \o << GetEvent(u, path, outcome), SleepEvent >>,
          fetched |-> (path :> (Count(cnt, path) + 1)) @@ cnt,
          raised |-> FALSE]

download_save_file(files, log, cnt, u, path, body, outcome) ==
    IF outcome # "ok"
    THEN [fs |-> files, net |-> Append(log, GetEvent(u, path, outcome)),
          fetched |-> cnt, raised |-> TRUE]
    ELSE [fs |-> (path :> body) @@ files,
          net |-> log \o << GetEvent(u, path, outcome), SleepEvent >>,
          fetched |-> (path :> (Count(cnt, path) + 1)) @@ cnt,
          raised |-> FALSE]

----------------------------------------------------------------------------
(* create_ffmpeg_concat_file: the lines written, up to an exception.       *)

TrailingDuration == 30

FileLine(path) == [kind |-> "file", path |-> path, secs |-> 0]
DurationLine(d) == [kind |-> "duration", path |-> "", secs |-> d]

\* row.get('timeSec', row['time']/1000): the default is evaluated first
time_sec_of(row) ==
    IF row.time.ty # "int" THEN [err |-> "TypeError", val |-> PNone]
    ELSE IF "timeSec" \in DOMAIN row THEN [err |-> "", val |-> row.timeSec]
    ELSE [err |-> "", val |-> PFloat(row.time.i)]

RECURSIVE concat_loop(_, _, _, _)
concat_loop(rows, k, size, st) ==
    IF k > Len(rows) THEN st
    ELSE LET row == rows[k]
             index == k - 1
             ts == time_sec_of(row)
         IN  IF ts.err # "" \/ ~IsNumber(ts.val)
             THEN [st EXCEPT !.err = "TypeError"]
             ELSE LET duration == TruncThousandths(Thousandths(ts.val) - 1000 * st.last_time)
                      file_path == concat_file_path(row, size)
                  IN  concat_loop(rows, k + 1, size,
                        [lines |-> st.lines
                                     \o (IF index # 0 THEN << DurationLine(duration) >> ELSE <<>>)
                                     \o << FileLine(file_path) >>,
                         last_time |-> TruncThousandths(Thousandths(ts.val)),
                         last_file_path |-> file_path,
                         err |-> ""])

concat_lines(rows, size) ==
    LET st == concat_loop(rows, 1, size,
                 [lines |-> <<>>, last_time |-> 0, last_file_path |-> "", err |-> ""])
    IN  IF st.err # "" THEN st
        ELSE [st EXCEPT !.lines = st.lines \o << DurationLine(TrailingDuration),
                                                  FileLine(st.last_file_path) >>]

----------------------------------------------------------------------------
(* The script.                                                             *)

NoFiles == [p \in {} |-> PNone]
NoVideo == [matched |-> FALSE, id |-> "", name |-> ""]
NoSlides == [type |-> "", slides |-> <<>>]

Init ==
    /\ url \in Urls
    /\ sizeArg \in SizeArgs
    /\ remoteJson \in JsonDocs
    /\ remoteXml \in XmlDocs
    /\ folder \in {"absent", "file"}
    /\ fs = NoFiles
    /\ run = 1
    /\ pc = "main"
    /\ exitStatus = -1
    /\ video = NoVideo
    /\ slides_info = NoSlides
    /\ idx = 1
    /\ net = <<>>
    /\ fetched = NoFiles
    /\ hits = {}

\* exit() without an argument
Exit0 == pc' = "exited" /\ exitStatus' = 0
\* an exception nobody catches: traceback, status 1
Crash == pc' = "crashed" /\ exitStatus' = 1

AfterInfo(slides) == IF Len(slides) = 0 THEN "concat" ELSE "download"

\* no existence check at all
must_download_always(files, path) == TRUE

\* os.path.exists(file_path) of download_slides_info_json / _xml is false
must_download(files, path) == path \notin DOMAIN files

\* the delay is taken on the cached path as well
use_local_then_sleep(files, log, cnt) ==
    [fs |-> files, net |-> Append(log, SleepEvent), fetched |-> cnt, raised |-> FALSE]

\* the manifest is already in the folder: nothing but open(file_path, 'r')
use_local(files, log, cnt) ==
    [fs |-> files, net |-> log, fetched |-> cnt, raised |-> FALSE]

\* an except clause that only catches the request's errors
json_except_requests_only(err) == IF err = "RequestException" THEN "xml" ELSE "crashed"

\* where the script goes when the try block of download_slides_info raised
\* err: the bare except catches whatever it is
json_except(err) == "xml"

\* the XML step is tried again
xml_except_retry(err) == "xml"

\* where the script goes when the except block of download_slides_info
\* raised err: nothing catches it
xml_except(err) == "crashed"

\* no try around download_save_file
image_except_propagate(raised) == IF raised THEN "abort" ELSE "continue"

\* where the download loop goes after download_save_file raised or returned:
\* except Exception prints and the loop goes on
image_except(raised) == "continue"

StatusAt(target) == IF target = "crashed" THEN 1 ELSE exitStatus

\* __main__ up to get_video_id
GetVideoId ==
    /\ pc = "main"
    /\ LET v == get_video_id(url)
       IN  IF v.matched
           THEN /\ video' = v
                /\ pc' = "info"
                /\ UNCHANGED exitStatus
           ELSE /\ Exit0
                /\ UNCHANGED video
    /\ UNCHANGED << url, sizeArg, remoteJson, remoteXml, folder, fs, run,
                    slides_info, idx, net, fetched, hits >>

\* download_slides_info up to the try: the per-video folder
MakeFolder ==
    /\ pc = "info"
    /\ folder' = IF folder = "absent" THEN "dir" ELSE folder
    /\ IF folder' = "file"
       THEN Exit0
       ELSE pc' = "json" /\ UNCHANGED exitStatus
    /\ UNCHANGED << url, sizeArg, remoteJson, remoteXml, fs, run, video,
                    slides_info, idx, net, fetched, hits >>

\* the try block of download_slides_info: download_slides_info_json, parse_json
JsonStep ==
    /\ pc = "json"
    /\ \E outcome \in Outcomes :
         LET cached == ~must_download(fs, JsonFile)
             r == IF cached
                  THEN use_local(fs, net, fetched)
                  ELSE download_save_file(fs, net, fetched, json_info_url(video.id),
                                          JsonFile, remoteJson, outcome)
             parsed == IF r.raised THEN [err |-> "RequestException", slides |-> <<>>]
                       ELSE parse_json(r.fs[JsonFile])
         IN  /\ cached => outcome = "ok"
             /\ fs' = r.fs
             /\ net' = r.net
             /\ fetched' = r.fetched
             /\ hits' = IF cached THEN hits \cup {JsonFile} ELSE hits
             /\ IF parsed.err = ""
                THEN /\ slides_info' = [type |-> "dict", slides |-> parsed.slides]
                     /\ pc' = AfterInfo(parsed.slides)
                     /\ UNCHANGED exitStatus
                ELSE /\ pc' = json_except(parsed.err)
                     /\ exitStatus' = StatusAt(pc')
                     /\ UNCHANGED slides_info
    /\ UNCHANGED << url, sizeArg, remoteJson, remoteXml, folder, run, video, idx >>

\* the except block of download_slides_info: download_slides_info_xml, parse_xml
XmlStep ==
    /\ pc = "xml"
    /\ \E outcome \in Outcomes :
         LET path == XmlFile(video.id)
             cached == ~must_download(fs, path)
             r == IF cached
                  THEN use_local(fs, net, fetched)
                  ELSE download_save_file(fs, net, fetched, xml_info_url(video.id),
                                          path, remoteXml, outcome)
             parsed == IF r.raised THEN [err |-> "RequestException", slides |-> <<>>]
                       ELSE parse_xml(r.fs[path], df_cols)
         IN  /\ cached => outcome = "ok"
             /\ fs' = r.fs
             /\ net' = r.net
             /\ fetched' = r.fetched
             /\ hits' = IF cached THEN hits \cup {path} ELSE hits
             /\ IF parsed.err = ""
                THEN /\ slides_info' = [type |-> "DataFrame", slides |-> parsed.slides]
                     /\ pc' = AfterInfo(parsed.slides)
                     /\ UNCHANGED exitStatus
                ELSE /\ pc' = xml_except(parsed.err)
                     /\ exitStatus' = StatusAt(pc')
                     /\ UNCHANGED slides_info
    /\ UNCHANGED << url, sizeArg, remoteJson, remoteXml, folder, run, video, idx >>

IsJson == slides_info.type = "dict"

\* size passed to the download function by __main__
download_size == IF IsJson THEN size_conversion(sizeArg) ELSE PStr(sizeArg)

\* local file name of a slide's image, as the download function builds it
download_file_path(slide) ==
    IF IsJson THEN json_file_path(slide, download_size)
    ELSE xml_file_path(slide, download_size)

download_img_url(slide) ==
    IF IsJson THEN json_img_url(video.id, slide, download_size)
    ELSE xml_img_url(video.id, slide, download_size)

\* one iteration of the loop of download_slides_json / download_slides_xml
DownloadSlide ==
    /\ pc = "download"
    /\ idx <= Len(slides_info.slides)
    /\ LET slide == slides_info.slides[idx]
       IN  IF IsJson /\ (slide.slideName.ty # "str" \/ slide.slideExt.ty # "str")
           THEN \* slide['slideName'] + slide['slideExt'] raises outside the try
                /\ Crash
                /\ UNCHANGED << fs, net, fetched, idx >>
           ELSE \E outcome \in Outcomes :
                  LET u == download_img_url(slide)
                      path == download_file_path(slide)
                      r == download_save_file(fs, net, fetched, u, path,
                                              [image |-> u], outcome)
                  IN  /\ fs' = r.fs
                      /\ net' = r.net
                      /\ fetched' = r.fetched
                      /\ IF image_except(r.raised) = "continue"
                         THEN /\ idx' = idx + 1
                              /\ pc' = IF idx' > Len(slides_info.slides)
                                       THEN "concat" ELSE "download"
                              /\ UNCHANGED exitStatus
                         ELSE /\ Crash
                              /\ UNCHANGED idx
    /\ UNCHANGED << url, sizeArg, remoteJson, remoteXml, folder, run, video,
                    slides_info, hits >>

\* the builder never looks for the playlist
playlist_exists_ignored(files) == FALSE

\* os.path.exists(ffmpeg_file_path) of create_ffmpeg_concat_file
playlist_exists(files) == ConcatFile \in DOMAIN files

\* the lines of the playlist after open(ffmpeg_file_path, 'a') and the writes
appended(files, lines) ==
    IF ConcatFile \in DOMAIN files THEN files[ConcatFile].lines \o lines ELSE lines

\* create_ffmpeg_concat_file, then the end of the script
CreateConcat ==
    /\ pc = "concat"
    /\ IF playlist_exists(fs)
       THEN /\ pc' = "done"
            /\ exitStatus' = 0
            /\ UNCHANGED fs
       ELSE LET w == concat_lines(slides_info.slides, PStr(sizeArg))
            IN  /\ fs' = (ConcatFile :> [lines |-> appended(fs, w.lines)]) @@ fs
                /\ IF w.err = ""
                   THEN pc' = "done" /\ exitStatus' = 0
                   ELSE Crash
    /\ UNCHANGED << url, sizeArg, remoteJson, remoteXml, folder, run, video,
                    slides_info, idx, net, fetched, hits >>

Finished == pc \in {"exited", "crashed", "done"}

\* the script is started again on the same video, in the same directory
StartRun ==
    /\ Finished \/ pc = "killed"
    /\ run < MaxRuns
    /\ run' = run + 1
    /\ pc' = "main"
    /\ exitStatus' = -1
    /\ video' = NoVideo
    /\ slides_info' = NoSlides
    /\ idx' = 1
    /\ net' = <<>>
    /\ hits' = {}
    /\ UNCHANGED << url, sizeArg, remoteJson, remoteXml, folder, fs, fetched >>

Next ==
    \/ GetVideoId
    \/ MakeFolder
    \/ JsonStep
    \/ XmlStep
    \/ DownloadSlide
    \/ CreateConcat
    \/ StartRun

Spec == Init /\ [][Next]_vars

----------------------------------------------------------------------------
(* The same script in an environment that can kill the process (SIGKILL,   *)
(* power loss) while download_save_file is between open(save_path, 'wb')   *)
(* and the end of f.write(r.content).                                      *)

\* what is at save_path then: the file exists and holds a prefix of the body
Truncated == [syntax |-> "bad", truncated |-> TRUE]

IsTruncated(content) == "truncated" \in DOMAIN content

\* the download the script is about to do, if any
PendingDownload ==
    CASE pc = "json" ->
           [needed |-> must_download(fs, JsonFile),
            url |-> json_info_url(video.id), path |-> JsonFile]
      [] pc = "xml" ->
           [needed |-> must_download(fs, XmlFile(video.id)),
            url |-> xml_info_url(video.id), path |-> XmlFile(video.id)]
      [] pc = "download" /\ idx <= Len(slides_info.slides)
            /\ ~(IsJson /\ (slides_info.slides[idx].slideName.ty # "str"
                               \/ slides_info.slides[idx].slideExt.ty # "str")) ->
           [needed |-> TRUE,
            url |-> download_img_url(slides_info.slides[idx]),
            path |-> download_file_path(slides_info.slides[idx])]
      [] OTHER -> [needed |-> FALSE, url |-> "", path |-> ""]

\* download_save_file up to the middle of the write, then the process dies
KilledInWrite ==
    /\ PendingDownload.needed
    /\ fs' = (PendingDownload.path :> Truncated) @@ fs
    /\ net' = Append(net, GetEvent(PendingDownload.url, PendingDownload.path, "ok"))
    /\ pc' = "killed"
    /\ exitStatus' = 137
    /\ UNCHANGED << url, sizeArg, remoteJson, remoteXml, folder, run, video,
                    slides_info, idx, fetched, hits >>

NextInterrupt == Next \/ KilledInWrite

SpecInterrupt == Init /\ [][NextInterrupt]_vars

----------------------------------------------------------------------------
(* Properties.                                                             *)

IsGet(e, path) == e.op = "get" /\ e.path = path

Requested(path) == \E k \in 1..Len(net) : IsGet(net[k], path)

IsImageGet(e) == e.op = "get" /\ e.path \notin {JsonFile, XmlFile(video.id)}

ImageGets == SelectSeq(net, IsImageGet)

PastJson == pc \in {"xml", "download", "concat", "done", "crashed"}

JsonGetFailed == \E k \in 1..Len(net) : IsGet(net[k], JsonFile) /\ net[k].outcome # "ok"

JsonUnparseable == JsonFile \in DOMAIN fs /\ parse_json(fs[JsonFile]).err # ""

JsonStepFailed == PastJson /\ (JsonGetFailed \/ JsonUnparseable)

XmlUsed == XmlFile(video.id) \in hits \/ Requested(XmlFile(video.id))

XmlParsed ==
    /\ XmlFile(video.id) \in DOMAIN fs
    /\ parse_xml(fs[XmlFile(video.id)], df_cols).err = ""

\* C1: once the JSON step has failed (failed request, or a slides.json on
\* disk that parse_json rejects) the script is at the XML step or has taken
\* it; if the XML step succeeded the slide list is the DataFrame of the XML
\* manifest and every image request uses the XML url and file name; a dict
\* (JSON) slide list is only ever the parse of a slides.json that was
\* obtained and parsed without failure.
C1_FallbackTotal ==
    /\ JsonStepFailed => (pc = "xml" \/ XmlUsed)
    /\ (JsonStepFailed /\ pc # "xml" /\ XmlUsed /\ XmlParsed) =>
          /\ slides_info = [type |-> "DataFrame",
                            slides |-> parse_xml(fs[XmlFile(video.id)], df_cols).slides]
          /\ \A k \in 1..Len(ImageGets) :
                /\ ImageGets[k].url =
                      xml_img_url(video.id, slides_info.slides[k], PStr(sizeArg))
                /\ ImageGets[k].path = xml_file_path(slides_info.slides[k], PStr(sizeArg))
    /\ slides_info.type = "dict" =>
          /\ ~JsonStepFailed
          /\ JsonFile \in DOMAIN fs
          /\ slides_info.slides = parse_json(fs[JsonFile]).slides

C1_Witness ==
    /\ JsonUnparseable
    /\ ~JsonGetFailed
    /\ slides_info.type = "DataFrame"
    /\ Len(ImageGets) >= 1
    /\ pc = "concat"

IsFileLine(l) == l.kind = "file"
IsDurationLine(l) == l.kind = "duration"

Playlist == fs[ConcatFile].lines
FileLines == SelectSeq(Playlist, IsFileLine)
DurationLines == SelectSeq(Playlist, IsDurationLine)

\* the playlist on disk was written, to its end, by the first run
PlaylistWritten == run = 1 /\ pc = "done" /\ ConcatFile \in DOMAIN fs

\* C2: in a run that downloaded the slides and wrote the playlist, the path
\* of the k-th file line of ffmpeg_concat.txt is the file name under which
\* the k-th slide's image was requested to be stored.
C2_PlaylistNamesDownloads ==
    PlaylistWritten =>
        \A k \in 1..Len(slides_info.slides) :
            FileLines[k].path = ImageGets[k].path

\* the builder of the first run has run: nothing else creates the playlist
BuilderRan == run = 1 /\ ConcatFile \in DOMAIN fs /\ slides_info.type # ""

\* the number a decimal numeral stands for
NumeralBound == 100
IsNumeral(v) == v.ty = "str" /\ \E n \in 0..NumeralBound : ToString(n) = v.s
NumeralValue(v) == CHOOSE n \in 0..NumeralBound : ToString(n) = v.s

\* the manifest gives every slide a start time: a number of milliseconds in
\* 'time' (JSON), a numeral of seconds in 'timeSec' of a row that has all
\* its four elements (XML)
HasStartTime(row) ==
    IF slides_info.type = "dict" THEN row.time.ty = "int"
    ELSE IsNumeral(row.timeSec) /\ \A c \in DOMAIN row : row[c].ty = "str"

AllHaveStartTimes ==
    \A k \in 1..Len(slides_info.slides) : HasStartTime(slides_info.slides[k])

\* start time of a slide, in thousandths of a second
StartThousandths(row) ==
    IF slides_info.type = "dict" THEN row.time.i ELSE 1000 * NumeralValue(row.timeSec)

Floor(thousandths) == thousandths \div 1000

\* C3: for a resolved list of n >= 1 slides with start times and no playlist
\* beforehand, the builder writes 2n+1 lines: file lines at the odd places,
\* duration lines at the even ones, the i-th file line naming slide i, the
\* last duration 30, the last two file lines naming the same path.
C3_PlaylistShape ==
    (BuilderRan /\ AllHaveStartTimes /\ Len(slides_info.slides) >= 1) =>
        LET n == Len(slides_info.slides)
        IN  /\ Len(Playlist) = 2 * n + 1
            /\ Len(FileLines) = n + 1
            /\ Len(DurationLines) = n
            /\ \A j \in 1..Len(Playlist) :
                  IF j % 2 = 1 THEN IsFileLine(Playlist[j]) ELSE IsDurationLine(Playlist[j])
            /\ \A i \in 1..n :
                  FileLines[i].path = concat_file_path(slides_info.slides[i], PStr(sizeArg))
            /\ DurationLines[n].secs = TrailingDuration
            /\ FileLines[n + 1].path = FileLines[n].path

\* C4: for a resolved list with start times t, the first line of the
\* playlist is a file line, the line between the file lines of slides i-1
\* and i is 'duration floor(t_i) - floor(t_(i-1))', and the timestamp the
\* builder carries after slide i is floor(t_i).
C4_DurationsLag ==
    (BuilderRan /\ AllHaveStartTimes /\ Len(slides_info.slides) >= 1) =>
        LET rows == slides_info.slides
            n == Len(rows)
        IN  /\ Len(Playlist) >= 2 * n - 1
            /\ IsFileLine(Playlist[1])
            /\ \A i \in 2..n :
                  /\ IsFileLine(Playlist[2 * i - 3])
                  /\ IsFileLine(Playlist[2 * i - 1])
                  /\ Playlist[2 * i - 2] =
                        DurationLine(Floor(StartThousandths(rows[i]))
                                       - Floor(StartThousandths(rows[i - 1])))
            /\ \A i \in 1..n :
                  LET st == concat_loop(SubSeq(rows, 1, i), 1, PStr(sizeArg),
                               [lines |-> <<>>, last_time |-> 0,
                                last_file_path |-> "", err |-> ""])
                  IN  st.err = "" /\ st.last_time = Floor(StartThousandths(rows[i]))

\* the shape of C3 for the JSON schema only
C3_PlaylistShapeJson == slides_info.type = "dict" => C3_PlaylistShape

Failed(e) == e.op = "get" /\ e.outcome # "ok"

ImageFailed == \E k \in 1..Len(ImageGets) : Failed(ImageGets[k])

\* C5: with a resolved slide list, the image requests issued so far are
\* those of the slides before the loop's position, one each and in list
\* order, whatever their outcomes; and a run in which an image request
\* failed ends only after the loop has passed the last slide and
\* create_ffmpeg_concat_file has been called.
C5_ImageFailuresIsolated ==
    slides_info.type # "" =>
        /\ Len(ImageGets) = idx - 1
        /\ \A k \in 1..Len(ImageGets) :
              ImageGets[k].path = download_file_path(slides_info.slides[k])
        /\ pc = "concat" => idx = Len(slides_info.slides) + 1
        /\ (ImageFailed /\ Finished) =>
              /\ idx = Len(slides_info.slides) + 1
              /\ ConcatFile \in DOMAIN fs

C5_Witness ==
    /\ pc = "done"
    /\ exitStatus = 0
    /\ Len(ImageGets) = 2
    /\ ImageGets[1].outcome = "http_error"
    /\ ImageGets[2].outcome = "ok"

\* C6: when the download loop reaches a slide whose image file is already in
\* the folder, it issues no request and leaves the folder as it is.
C6_ImageServedFromDisk ==
    [][(/\ pc = "download"
        /\ ~(IsJson /\ slides_info.slides[idx].slideName.ty # "str")
        /\ download_file_path(slides_info.slides[idx]) \in DOMAIN fs)
          => (net' = net /\ fs' = fs)]_vars

ManifestStepLeaves(at, path) ==
    (pc = at /\ path \in DOMAIN fs) => (net' = net /\ fs' = fs /\ fetched' = fetched)

\* C7: a manifest step that finds its file in the folder issues no request
\* and leaves the folder as it is; over all runs each manifest is downloaded
\* at most once.
C7_ManifestThroughCache ==
    /\ [](Count(fetched, JsonFile) <= 1 /\ Count(fetched, XmlFile(get_video_id(url).id)) <= 1)
    /\ [][/\ ManifestStepLeaves("json", JsonFile)
          /\ ManifestStepLeaves("xml", XmlFile(video.id))]_vars

C7_Witness ==
    /\ run = 2
    /\ hits = {JsonFile, XmlFile(video.id)}
    /\ Count(fetched, JsonFile) = 1
    /\ Count(fetched, XmlFile(video.id)) = 1
    /\ net = <<>>
    /\ pc \in {"download", "concat"}

XmlGetFailed ==
    \E k \in 1..Len(net) : IsGet(net[k], XmlFile(video.id)) /\ Failed(net[k])

XmlUnparseable ==
    /\ XmlUsed
    /\ XmlFile(video.id) \in DOMAIN fs
    /\ parse_xml(fs[XmlFile(video.id)], df_cols).err # ""

GetsOf(path) == Len(SelectSeq(net, LAMBDA e : IsGet(e, path)))

\* C8: once the JSON step and the XML step have both failed, the run has
\* ended with exit status 1, each manifest was requested at most once, no
\* image was requested and there is no playlist file.
C8_BothManifestsFail ==
    (JsonStepFailed /\ (XmlGetFailed \/ XmlUnparseable)) =>
        /\ pc = "crashed"
        /\ exitStatus = 1
        /\ slides_info.type = ""
        /\ GetsOf(JsonFile) <= 1
        /\ GetsOf(XmlFile(video.id)) <= 1
        /\ Len(ImageGets) = 0
        /\ ConcatFile \notin DOMAIN fs

C8_Witness ==
    /\ pc = "crashed"
    /\ JsonGetFailed
    /\ XmlGetFailed

\* C9: a run whose url does not match the pattern ends with a non-zero exit
\* status, without a request and without a folder or file created.
C9_BadUrlIsFatal ==
    (Finished /\ ~get_video_id(url).matched) =>
        /\ exitStatus # 0
        /\ net = <<>>
        /\ folder # "dir"
        /\ fs = NoFiles

\* the part of C9 that is not about the exit status
C9_BadUrlNoEffects ==
    (Finished /\ ~get_video_id(url).matched) =>
        /\ pc = "exited"
        /\ net = <<>>
        /\ folder # "dir"
        /\ fs = NoFiles

\* C10: every sleep of a run directly follows a request that completed, and
\* a step that serves a manifest from the folder adds no sleep (and no
\* request) to the run.
C10_DelayOnlyAfterFetch ==
    /\ [](\A k \in 1..Len(net) :
            net[k].op = "sleep" =>
                k > 1 /\ net[k - 1].op = "get" /\ net[k - 1].outcome = "ok")
    /\ [][(run' = run /\ hits' # hits) => net' = net]_vars

C10_Witness ==
    /\ hits # {}
    /\ \E k \in 1..Len(net) : net[k].op = "sleep"

\* C11: in the request log of a run no request directly follows another
\* request: a sleep lies between any two of them.
C11_DelayBetweenRequests ==
    \A k \in 1..(Len(net) - 1) : ~(net[k].op = "get" /\ net[k + 1].op = "get")

\* C12: a call of create_ffmpeg_concat_file that finds ffmpeg_concat.txt in
\* the folder leaves the folder, and so the file's lines, as they are.
C12_ExistingPlaylistKept ==
    [][(pc = "concat" /\ ConcatFile \in DOMAIN fs) => fs' = fs]_vars

\* the builder of a later run was called with a list whose playlist would
\* differ from the one on disk, and returned
C12_Witness ==
    /\ run = 2
    /\ pc = "done"
    /\ ConcatFile \in DOMAIN fs
    /\ Len(slides_info.slides) >= 1
    /\ concat_lines(slides_info.slides, PStr(sizeArg)).lines # Playlist

\* C13: a file that an existence check of a manifest step finds in the
\* folder holds the full body it was downloaded from, also after a run that
\* was killed while writing it.
C13_NoTruncatedFileTaken ==
    \A p \in hits : ~IsTruncated(fs[p])

PlaylistClosed ==
    /\ Len(Playlist) >= 2
    /\ Playlist[Len(Playlist) - 1] = DurationLine(TrailingDuration)
    /\ IsFileLine(Playlist[Len(Playlist)])

\* C14: whenever a run has ended and ffmpeg_concat.txt is in the folder, the
\* file ends with 'duration 30' and the closing file line: no run leaves a
\* playlist without them.
C14_NoPartialPlaylist ==
    (Finished /\ ConcatFile \in DOMAIN fs) => PlaylistClosed

\* what follows from C14: a run never skips the builder on a playlist that
\* lacks the closing lines
C14_NoSkipOnPartial ==
    (run > 1 /\ pc = "done" /\ ConcatFile \in DOMAIN fs) => PlaylistClosed

\* C15 as first stated: after a run that resolved a slide list, slides.json
\* is in the folder exactly if the list came from JSON and <id>.xml exactly
\* if it came from XML.
C15_OnlyResolvingManifest ==
    (Finished /\ slides_info.type # "") =>
        /\ ("slides.json" \in DOMAIN fs) <=> (slides_info.type = "dict")
        /\ ((video.id \o ".xml") \in DOMAIN fs) <=> (slides_info.type = "DataFrame")

\* C15: after a run that resolved a slide list, the manifest file of the
\* schema that resolved is in the folder: slides.json if the list came from
\* JSON, <id>.xml if it came from XML (the other file may be there too).
C15_ResolvingManifestPresent ==
    (Finished /\ slides_info.type # "") =>
        /\ slides_info.type = "dict" => "slides.json" \in DOMAIN fs
        /\ slides_info.type = "DataFrame" => (video.id \o ".xml") \in DOMAIN fs

\* the XML fallback resolved after a slides.json that was fetched and rejected
C15_Witness ==
    /\ Finished
    /\ slides_info.type = "DataFrame"
    /\ ~JsonGetFailed
    /\ Requested("slides.json")
    /\ "slides.json" \in DOMAIN fs
    /\ (video.id \o ".xml") \in DOMAIN fs

\* C16: every duration line the builder wrote carries a number of seconds
\* that is not negative.
C16_DurationsNonNegative ==
    BuilderRan => \A k \in 1..Len(DurationLines) : DurationLines[k].secs >= 0

\* the height the JSON schema is to use for a size token, as text
ExpectedHeight ==
    CASE sizeArg = "big" -> "1080"
      [] sizeArg = "medium" -> "540"
      [] OTHER -> sizeArg

\* C17: every image request of a JSON list carries, in its url and in its
\* file name, 1080 for 'big', 540 for 'medium' and the token itself for any
\* other size; every image request of an XML list carries the token itself.
C17_SizeResolution ==
    \A k \in 1..Len(ImageGets) :
        LET slide == slides_info.slides[k]
            size == IF slides_info.type = "dict" THEN ExpectedHeight ELSE sizeArg
        IN  IF slides_info.type = "dict"
            THEN /\ ImageGets[k].url = json_img_url(video.id, slide, PStr(size))
                 /\ ImageGets[k].path = json_file_path(slide, PStr(size))
            ELSE /\ ImageGets[k].url = xml_img_url(video.id, slide, PStr(size))
                 /\ ImageGets[k].path = xml_file_path(slide, PStr(size))

C17_Witness ==
    /\ slides_info.type = "dict"
    /\ sizeArg = "big"
    /\ Len(ImageGets) = 2
    /\ ImageGets[2].path \in DOMAIN fs

\* the 'slides' array of the manifest on disk
RawSlides == fs[JsonFile].value.slides

\* C18: a slide list resolved from JSON has one slide per entry of the
\* manifest's 'slides' array, in the same order, each with the entry's time
\* value as it is and the name and extension of the entry's image.
C18_JsonNormalised ==
    slides_info.type = "dict" =>
        /\ Len(slides_info.slides) = Len(RawSlides)
        /\ \A k \in 1..Len(RawSlides) :
              /\ slides_info.slides[k].time = RawSlides[k].time
              /\ slides_info.slides[k].slideName = RawSlides[k].image.name
              /\ slides_info.slides[k].slideExt = RawSlides[k].image.extname

C18_Witness ==
    /\ slides_info.type = "dict"
    /\ Len(slides_info.slides) = 2
    /\ slides_info.slides[1].time = PInt(2000)
    /\ slides_info.slides[2].time = PInt(1500)

\* the step made a request for path
StepRequests(path) == Len(net') > Len(net) /\ IsGet(net'[Len(net) + 1], path)

\* C19: a step whose request failed leaves the folder as it was, and a
\* manifest step that does not find its file in the folder (as after a
\* failed fetch of an earlier run) requests it.
C19_FailedFetchLeavesFolder ==
    [][/\ (run' = run /\ Len(net') > Len(net) /\ Failed(net'[Len(net')]))
            => (fs' = fs /\ fetched' = fetched)
       /\ (pc = "json" /\ JsonFile \notin DOMAIN fs) => StepRequests(JsonFile)
       /\ (pc = "xml" /\ XmlFile(video.id) \notin DOMAIN fs)
            => StepRequests(XmlFile(video.id))]_vars

\* a second run fetches the slides.json that the first run failed to fetch
C19_Witness ==
    /\ run = 2
    /\ Requested(JsonFile)
    /\ ~JsonGetFailed
    /\ JsonFile \in DOMAIN fs

\* C20: the playlist the builder wrote does not start with a duration line,
\* has no file line with an empty path, and every duration line directly
\* follows a file line.
C20_PlaylistWellFormed ==
    BuilderRan =>
        \A j \in 1..Len(Playlist) :
            /\ IsFileLine(Playlist[j]) => Playlist[j].path # ""
            /\ IsDurationLine(Playlist[j]) => (j > 1 /\ IsFileLine(Playlist[j - 1]))

\* C20 for the lists that have a slide
C20_WellFormedNonEmpty ==
    Len(slides_info.slides) >= 1 => C20_PlaylistWellFormed

====
